---- MODULE Spec2Model ----
(***************************************************************************)
(* Model of app.py: the Arabic PDF OCR pipeline.  One behaviour is one     *)
(* run of the script body after the user has chosen a file and presses     *)
(* the "Start OCR Process" button.  The external collaborators (PyMuPDF,   *)
(* the Vision client, python-docx) are modelled by their outcomes, drawn   *)
(* nondeterministically where the script calls them.                       *)
(*                                                                         *)
(* Texts are sequences of one-character strings.  Python's None / an       *)
(* unbound local is the empty sequence <<>> and a bound value v is <<v>>.  *)
(***************************************************************************)
EXTENDS Integers, Sequences, FiniteSets, TLC

VARIABLES
    api_key_json_str,   \* content of the sidebar text area
    uploaded_file,      \* <<>> or <<file>>: result of st.file_uploader
    pc,                 \* position of the script
    client,             \* <<>> or <<"client">>: vision.ImageAnnotatorClient
    raster_calls,       \* number of calls of convert_pdf_to_images
    page_num,           \* loop variable of convert_pdf_to_images
    cpi_image_list,     \* image_list local to convert_pdf_to_images
    image_list,         \* <<>> or <<list>>: image_list of the script
    requests,           \* client.text_detection calls made, in order
    i,                  \* next index of the running enumerate() loop
    full_text,          \* page texts recognised so far
    progress_bar,       \* <<>> or <<value>>: last value given to st.progress
    infos,              \* st.info messages, in order
    txt_output,         \* <<>> or <<text>>
    doc,                \* body of the docx.Document, in order
    doc_byte_arr,       \* <<>> or <<saved body>>
    success,            \* st.success was shown
    downloads,          \* st.download_button widgets shown, in order
    errors              \* st.error messages, in order

vars == <<api_key_json_str, uploaded_file, pc, client, raster_calls, page_num,
          cpi_image_list, image_list, requests, i, full_text, progress_bar,
          infos, txt_output, doc, doc_byte_arr, success, downloads, errors>>

MaxPages == 3

None == <<>>

Some(v) == <<v>>

-----------------------------------------------------------------------------
(* Inputs *)

\* The text area holds nothing, text that is not JSON, JSON that is not a
\* service-account key, or a service-account key.
CredentialStrings == {"", "not json", "json", "service account json"}

IsJson(s) == s \in {"json", "service account json"}

IsServiceAccountInfo(s) == s = "service account json"

\* A file: fitz can open it or not; an openable one has page_count pages, of
\* which corrupt_page (0-based, -1 for none) cannot be rendered.
PdfFiles ==
    { f \in [openable : BOOLEAN, page_count : 0..MaxPages, corrupt_page : -1..(MaxPages - 1)] :
        /\ f.corrupt_page < f.page_count
        /\ ~f.openable => (f.page_count = 0 /\ f.corrupt_page = -1) }

\* The separator literal of the text output, character by character.
PageBreakSeparator ==
    <<"\n", "\n", "-", "-", "-", " ", "P", "a", "g", "e", " ",
      "B", "r", "e", "a", "k", " ", "-", "-", "-", "\n", "\n">>

\* U+202B, RIGHT-TO-LEFT EMBEDDING.
RLE == "U+202B"

Word == <<"m">>

Lines == <<"a", "\n", "b", "\n">>

\* What text_detection can answer: the list response.text_annotations (the
\* descriptions, the first being the full text), or an exception.
Responses ==
    { [raised |-> FALSE, text_annotations |-> <<>>],
      [raised |-> FALSE, text_annotations |-> <<Word>>],
      [raised |-> FALSE, text_annotations |-> <<Lines, <<"a">>, <<"b">>>>],
      [raised |-> TRUE,  text_annotations |-> <<>>] }

-----------------------------------------------------------------------------
(* Pure helpers *)

\* str.join that also closes the last item with the separator.
RECURSIVE JoinTrailing(_, _)
JoinTrailing(sep, seq) ==
    IF seq = <<>> THEN <<>>
    ELSE seq[1] \o sep \o JoinTrailing(sep, Tail(seq))

\* str.join
RECURSIVE Join(_, _)
Join(sep, seq) ==
    IF seq = <<>> THEN <<>>
    ELSE IF Len(seq) = 1 THEN seq[1]
    ELSE seq[1] \o sep \o Join(sep, Tail(seq))

\* '\u202B' + "\n\n--- Page Break ---\n\n".join(full_text)
TxtOutput(texts) == <<RLE>> \o Join(PageBreakSeparator, texts)

\* The value detect_text_in_image returns for a response.
DetectText(response) ==
    IF response.text_annotations # <<>>
    THEN response.text_annotations[1]
    ELSE <<>>

\* i / len(image_list): the progress of the pages before the current one.
ProgressBeforePage(idx, n) == <<idx, n>>

\* (i + 1) / len(image_list), kept as the fraction <<numerator, denominator>>.
Progress(idx, n) == <<idx + 1, n>>

\* A page break after every paragraph: if i < len(full_text)
NeedsPageBreakAlways(idx, n) == idx < n

\* if i < len(full_text) - 1
NeedsPageBreak(idx, n) == idx < n - 1

\* Every iteration renders the first page: load_page(0)
RenderFirstPage(p) == [page |-> 0]

\* The page image of page p: the PNG bytes, identified by the page rendered.
RenderPage(p) == [page |-> p]

Paragraph(text) == [kind |-> "paragraph", text |-> text, alignment |-> "RIGHT"]

PageBreak == [kind |-> "page_break", text |-> <<>>, alignment |-> "NONE"]

\* The st.error texts, each a tuple of its parts.
MissingCredentialMessage == <<"Please paste your Google API Key in the sidebar to continue.">>

RemediationHint == <<"Please check your API key and make sure the Cloud Vision API is enabled for your project.">>

ErrorMessage(e) == <<"An error occurred: ", e>>

-----------------------------------------------------------------------------
(* The script *)

Init ==
    /\ api_key_json_str \in CredentialStrings
    /\ uploaded_file = None
    /\ pc = "idle"
    /\ client = None
    /\ raster_calls = 0
    /\ page_num = 0
    /\ cpi_image_list = <<>>
    /\ image_list = None
    /\ requests = <<>>
    /\ i = 0
    /\ full_text = <<>>
    /\ progress_bar = None
    /\ infos = <<>>
    /\ txt_output = None
    /\ doc = <<>>
    /\ doc_byte_arr = None
    /\ success = FALSE
    /\ downloads = <<>>
    /\ errors = <<>>

\* The failure is reported and the script carries on where it was.
ExceptAndContinue(e) ==
    /\ errors' = errors \o <<ErrorMessage(e), RemediationHint>>
    /\ pc' = pc

\* The failure is reported without the second st.error.
ExceptWithoutHint(e) ==
    /\ errors' = Append(errors, ErrorMessage(e))
    /\ pc' = "done"

\* except Exception as e: the two st.error calls; the script ends.
Except(e) ==
    /\ errors' = errors \o <<ErrorMessage(e), RemediationHint>>
    /\ pc' = "done"

\* st.file_uploader returns a file.
Upload ==
    /\ pc = "idle"
    /\ uploaded_file = None
    /\ \E f \in PdfFiles : uploaded_file' = Some(f)
    /\ UNCHANGED <<api_key_json_str, pc, client, raster_calls, page_num,
                   cpi_image_list, image_list, requests, i, full_text,
                   progress_bar, infos, txt_output, doc, doc_byte_arr,
                   success, downloads, errors>>

\* The button is pressed; the credential text is tested for emptiness.
StartOCR ==
    /\ pc = "idle"
    /\ uploaded_file # None
    /\ IF api_key_json_str = ""
       THEN /\ errors' = Append(errors, MissingCredentialMessage)
            /\ pc' = "done"
       ELSE /\ pc' = "credentials"
            /\ UNCHANGED errors
    /\ UNCHANGED <<api_key_json_str, uploaded_file, client, raster_calls,
                   page_num, cpi_image_list, image_list, requests, i,
                   full_text, progress_bar, infos, txt_output, doc,
                   doc_byte_arr, success, downloads>>

\* The client is built without validating the credential text first.
CreateClientUnchecked ==
    /\ pc = "credentials"
    /\ client' = Some("client")
    /\ pc' = "step1"
    /\ UNCHANGED <<api_key_json_str, uploaded_file, raster_calls, page_num,
                   cpi_image_list, image_list, requests, i, full_text,
                   progress_bar, infos, txt_output, doc, doc_byte_arr,
                   success, downloads, errors>>

\* json.loads, from_service_account_info, ImageAnnotatorClient.
CreateClient ==
    /\ pc = "credentials"
    /\ IF ~IsJson(api_key_json_str)
       THEN Except("json") /\ UNCHANGED client
       ELSE IF ~IsServiceAccountInfo(api_key_json_str)
       THEN Except("credentials") /\ UNCHANGED client
       ELSE /\ client' = Some("client")
            /\ pc' = "step1"
            /\ UNCHANGED errors
    /\ UNCHANGED <<api_key_json_str, uploaded_file, raster_calls, page_num,
                   cpi_image_list, image_list, requests, i, full_text,
                   progress_bar, infos, txt_output, doc, doc_byte_arr,
                   success, downloads>>

\* Step 1: the file is read, convert_pdf_to_images is called and opens it.
OpenPdf ==
    /\ pc = "step1"
    /\ infos' = Append(infos, [step |-> 1, pages |-> 0])
    /\ raster_calls' = raster_calls + 1
    /\ page_num' = 0
    /\ cpi_image_list' = <<>>
    /\ IF uploaded_file[1].openable
       THEN pc' = "rasterize" /\ UNCHANGED errors
       ELSE Except("pdf")
    /\ UNCHANGED <<api_key_json_str, uploaded_file, client, image_list,
                   requests, i, full_text, progress_bar, txt_output, doc,
                   doc_byte_arr, success, downloads>>

\* A page that cannot be rendered is skipped instead of failing the run.
ConvertPageSkipCorrupt ==
    /\ pc = "rasterize"
    /\ page_num < uploaded_file[1].page_count
    /\ cpi_image_list' = IF page_num = uploaded_file[1].corrupt_page
                         THEN cpi_image_list
                         ELSE Append(cpi_image_list, RenderPage(page_num))
    /\ page_num' = page_num + 1
    /\ UNCHANGED <<api_key_json_str, uploaded_file, pc, client, raster_calls,
                   image_list, requests, i, full_text, progress_bar, infos,
                   txt_output, doc, doc_byte_arr, success, downloads, errors>>

\* One iteration of the loop of convert_pdf_to_images.
ConvertPage ==
    /\ pc = "rasterize"
    /\ page_num < uploaded_file[1].page_count
    /\ IF page_num = uploaded_file[1].corrupt_page
       THEN Except("pdf") /\ UNCHANGED <<cpi_image_list, page_num>>
       ELSE /\ cpi_image_list' = Append(cpi_image_list, RenderPage(page_num))
            /\ page_num' = page_num + 1
            /\ UNCHANGED <<pc, errors>>
    /\ UNCHANGED <<api_key_json_str, uploaded_file, client, raster_calls,
                   image_list, requests, i, full_text, progress_bar, infos,
                   txt_output, doc, doc_byte_arr, success, downloads>>

\* convert_pdf_to_images returns; step 2 is announced with the page count.
StartStep2 ==
    /\ pc = "rasterize"
    /\ page_num = uploaded_file[1].page_count
    /\ image_list' = Some(cpi_image_list)
    /\ infos' = Append(infos, [step |-> 2, pages |-> Len(cpi_image_list)])
    /\ full_text' = <<>>
    /\ progress_bar' = Some(<<0, 1>>)
    /\ i' = 0
    /\ pc' = "ocr"
    /\ UNCHANGED <<api_key_json_str, uploaded_file, client, raster_calls,
                   page_num, cpi_image_list, requests, txt_output, doc,
                   doc_byte_arr, success, downloads, errors>>

\* The OCR loop keeping only pages with text: if text_from_page: append.
OcrPageSkipEmpty ==
    /\ pc = "ocr"
    /\ i < Len(image_list[1])
    /\ \E response \in Responses :
        /\ requests' = Append(requests, [image |-> image_list[1][i + 1], response |-> response])
        /\ IF response.raised
           THEN Except("ocr") /\ UNCHANGED <<full_text, progress_bar, i>>
           ELSE /\ full_text' = IF DetectText(response) = <<>>
                                THEN full_text
                                ELSE Append(full_text, DetectText(response))
                /\ progress_bar' = Some(Progress(i, Len(image_list[1])))
                /\ i' = i + 1
                /\ UNCHANGED <<pc, errors>>
    /\ UNCHANGED <<api_key_json_str, uploaded_file, client, raster_calls,
                   page_num, cpi_image_list, image_list, infos, txt_output,
                   doc, doc_byte_arr, success, downloads>>

\* The OCR loop submitting the same page again after a failed call.
OcrPageRetry ==
    /\ pc = "ocr"
    /\ i < Len(image_list[1])
    /\ \E response \in Responses :
        /\ requests' = Append(requests, [image |-> image_list[1][i + 1], response |-> response])
        /\ IF response.raised
           THEN UNCHANGED <<full_text, progress_bar, i>>
           ELSE /\ full_text' = Append(full_text, DetectText(response))
                /\ progress_bar' = Some(Progress(i, Len(image_list[1])))
                /\ i' = i + 1
    /\ UNCHANGED <<api_key_json_str, uploaded_file, pc, client, raster_calls,
                   page_num, cpi_image_list, image_list, infos, txt_output,
                   doc, doc_byte_arr, success, downloads, errors>>

\* One iteration of the OCR loop: detect_text_in_image on image i.
OcrPage ==
    /\ pc = "ocr"
    /\ i < Len(image_list[1])
    /\ \E response \in Responses :
        /\ requests' = Append(requests, [image |-> image_list[1][i + 1], response |-> response])
        /\ IF response.raised
           THEN Except("ocr") /\ UNCHANGED <<full_text, progress_bar, i>>
           ELSE /\ full_text' = Append(full_text, DetectText(response))
                /\ progress_bar' = Some(Progress(i, Len(image_list[1])))
                /\ i' = i + 1
                /\ UNCHANGED <<pc, errors>>
    /\ UNCHANGED <<api_key_json_str, uploaded_file, client, raster_calls,
                   page_num, cpi_image_list, image_list, infos, txt_output,
                   doc, doc_byte_arr, success, downloads>>

\* Step 3 is announced, the text output is built, the document is created.
StartStep3 ==
    /\ pc = "ocr"
    /\ i = Len(image_list[1])
    /\ infos' = Append(infos, [step |-> 3, pages |-> 0])
    /\ txt_output' = Some(TxtOutput(full_text))
    /\ doc' = <<>>
    /\ i' = 0
    /\ pc' = "docx"
    /\ UNCHANGED <<api_key_json_str, uploaded_file, client, raster_calls,
                   page_num, cpi_image_list, image_list, requests, full_text,
                   progress_bar, doc_byte_arr, success, downloads, errors>>

\* One iteration of the docx loop; python-docx may reject the text.
AddParagraph ==
    /\ pc = "docx"
    /\ i < Len(full_text)
    /\ \E ok \in BOOLEAN :
        IF ok
        THEN /\ doc' = doc \o <<Paragraph(full_text[i + 1])>>
                           \o (IF NeedsPageBreak(i, Len(full_text))
                               THEN <<PageBreak>> ELSE <<>>)
             /\ i' = i + 1
             /\ UNCHANGED <<pc, errors>>
        ELSE Except("docx") /\ UNCHANGED <<doc, i>>
    /\ UNCHANGED <<api_key_json_str, uploaded_file, client, raster_calls,
                   page_num, cpi_image_list, image_list, requests, full_text,
                   progress_bar, infos, txt_output, doc_byte_arr, success,
                   downloads>>

\* doc.save into the in-memory buffer.
SaveDocx ==
    /\ pc = "docx"
    /\ i = Len(full_text)
    /\ \E ok \in BOOLEAN :
        IF ok
        THEN /\ doc_byte_arr' = Some(doc)
             /\ pc' = "success"
             /\ UNCHANGED errors
        ELSE Except("docx") /\ UNCHANGED doc_byte_arr
    /\ UNCHANGED <<api_key_json_str, uploaded_file, client, raster_calls,
                   page_num, cpi_image_list, image_list, requests, i,
                   full_text, progress_bar, infos, txt_output, doc, success,
                   downloads>>

\* st.success and the two download buttons.
ShowDownloads ==
    /\ pc = "success"
    /\ success' = TRUE
    /\ downloads' = <<[label |-> "Download as TXT", data |-> [utf8 |-> txt_output[1]]],
                      [label |-> "Download as DOCX", data |-> [docx |-> doc_byte_arr[1]]]>>
    /\ pc' = "done"
    /\ UNCHANGED <<api_key_json_str, uploaded_file, client, raster_calls,
                   page_num, cpi_image_list, image_list, requests, i,
                   full_text, progress_bar, infos, txt_output, doc,
                   doc_byte_arr, errors>>

Next ==
    \/ Upload
    \/ StartOCR
    \/ CreateClient
    \/ OpenPdf
    \/ ConvertPage
    \/ StartStep2
    \/ OcrPage
    \/ StartStep3
    \/ AddParagraph
    \/ SaveDocx
    \/ ShowDownloads

Spec == Init /\ [][Next]_vars

-----------------------------------------------------------------------------
(* Vocabulary of the properties *)

PageCount == uploaded_file[1].page_count

Succeeded == pc = "done" /\ success

Paragraphs(d) == SelectSeq(d, LAMBDA e : e.kind = "paragraph")

PageBreaks(d) == SelectSeq(d, LAMBDA e : e.kind = "page_break")

\* Number of characters of the text output that precede page segment k.
RECURSIVE SegmentOffset(_, _)
SegmentOffset(texts, k) ==
    IF k = 1 THEN 1
    ELSE SegmentOffset(texts, k - 1) + Len(texts[k - 1]) + Len(PageBreakSeparator)

SegmentAt(out, texts, k) ==
    SubSeq(out, SegmentOffset(texts, k) + 1, SegmentOffset(texts, k) + Len(texts[k]))

StartsWith(s, prefix) ==
    /\ Len(s) >= Len(prefix)
    /\ SubSeq(s, 1, Len(prefix)) = prefix

EndsWith(s, suffix) ==
    /\ Len(s) >= Len(suffix)
    /\ SubSeq(s, Len(s) - Len(suffix) + 1, Len(s)) = suffix

-----------------------------------------------------------------------------
(* Properties *)

C2_BreaksAlwaysNMinusOne ==
    doc_byte_arr # None => Len(PageBreaks(doc_byte_arr[1])) = PageCount - 1

\* C2 amended: for N >= 1 the saved document has exactly N-1 page breaks, each
\* between two page paragraphs, and ends with a paragraph; every paragraph is
\* right-aligned; N = 1 gives a single right-aligned paragraph and no break;
\* N = 0 gives an empty document.
C2_PageBreaksBetweenParagraphs ==
    doc_byte_arr # None =>
        LET d == doc_byte_arr[1] IN
        /\ PageCount = 0 => d = <<>>
        /\ PageCount = 1 =>
             d = <<[kind |-> "paragraph", text |-> full_text[1], alignment |-> "RIGHT"]>>
        /\ PageCount >= 1 =>
             /\ Len(PageBreaks(d)) = PageCount - 1
             /\ d[Len(d)].kind = "paragraph"
             /\ \A k \in 1..Len(d) :
                  d[k].kind = "page_break" =>
                      /\ 1 < k /\ k < Len(d)
                      /\ d[k - 1].kind = "paragraph"
                      /\ d[k + 1].kind = "paragraph"
             /\ \A k \in 1..Len(d) :
                  d[k].kind = "paragraph" => d[k].alignment = "RIGHT"

C2_Witness ==
    /\ Succeeded
    /\ PageCount >= 2
    /\ Len(PageBreaks(doc_byte_arr[1])) = PageCount - 1

\* C3 as stated: the text output begins with the marker, and no separator
\* stands right after the marker or at the very end, whatever the page texts.
C3_NoSeparatorAtEnds ==
    txt_output # None =>
        /\ txt_output[1][1] = RLE
        /\ ~StartsWith(Tail(txt_output[1]), PageBreakSeparator)
        /\ ~EndsWith(txt_output[1], PageBreakSeparator)

\* C3 amended: the text output begins with the marker; consecutive page texts
\* are separated by exactly the separator literal and nothing is added before
\* the first or after the last page text; a separator stands right after the
\* marker only if the first page text is empty or begins with a line break,
\* and at the very end only if the last page text is empty or ends with one.
C3_JoinedBySeparator ==
    txt_output # None =>
        LET out == txt_output[1]
            n == Len(full_text)
        IN
        /\ out[1] = RLE
        /\ n = 0 => out = <<RLE>>
        /\ n >= 1 => Len(out) = SegmentOffset(full_text, n) + Len(full_text[n])
        /\ \A k \in 1..(n - 1) :
             SubSeq(out, SegmentOffset(full_text, k) + Len(full_text[k]) + 1,
                         SegmentOffset(full_text, k + 1)) = PageBreakSeparator
        /\ (n >= 1 /\ full_text[1] # <<>> /\ full_text[1][1] # "\n")
             => ~StartsWith(Tail(out), PageBreakSeparator)
        /\ (n >= 1 /\ full_text[n] # <<>> /\ full_text[n][Len(full_text[n])] # "\n")
             => ~EndsWith(out, PageBreakSeparator)
        /\ n = 1 => out = <<RLE>> \o full_text[1]

C3_Witness ==
    /\ Succeeded
    /\ Len(full_text) >= 2
    /\ full_text[1] = <<>>
    /\ full_text[Len(full_text)] = Word
    /\ StartsWith(Tail(txt_output[1]), PageBreakSeparator)

\* C4: when the run is triggered with an empty credential text or one that is
\* not JSON, the script goes no further than the credential check: an error is
\* reported, convert_pdf_to_images is never called and no text_detection
\* request is made.
C4_BadCredentialStopsBeforeProcessing ==
    (pc # "idle" /\ ~IsJson(api_key_json_str)) =>
        /\ pc \in {"credentials", "done"}
        /\ raster_calls = 0
        /\ requests = <<>>
        /\ image_list = None
        /\ infos = <<>>
        /\ pc = "done" => errors # <<>>
        /\ (pc = "done" /\ api_key_json_str # "")
             => errors = <<ErrorMessage("json"), RemediationHint>>

C4_Witness ==
    /\ pc = "done"
    /\ api_key_json_str = "not json"
    /\ errors = <<ErrorMessage("json"), RemediationHint>>
    /\ uploaded_file[1].openable

\* C5: when the uploaded file cannot be opened as a PDF, or one of its pages
\* cannot be rendered, the finished run has reported an error, no
\* text_detection request is ever made, and neither output buffer nor any
\* download button is produced.
C5_BadPdfProducesNoOutput ==
    (uploaded_file # None
        /\ (~uploaded_file[1].openable \/ uploaded_file[1].corrupt_page >= 0)) =>
        /\ requests = <<>>
        /\ image_list = None
        /\ txt_output = None
        /\ doc = <<>>
        /\ doc_byte_arr = None
        /\ downloads = <<>>
        /\ ~success
        /\ pc = "done" => errors # <<>>

C5_Witness ==
    /\ pc = "done"
    /\ uploaded_file[1].corrupt_page = 1
    /\ Len(cpi_image_list) = 1
    /\ raster_calls = 1
    /\ errors = <<ErrorMessage("pdf"), RemediationHint>>

\* C6: once an error is reported the script is over and takes no further
\* step; an error run shows neither the success message nor a download
\* button, so no recognised text leaves it; the success message and the
\* download buttons appear only when credentials, rasterization, every OCR
\* call and the composition all completed.
C6_ErrorsAreTerminal ==
    /\ [](errors # <<>> => (pc = "done" /\ ~success /\ downloads = <<>>))
    /\ [][(errors = <<>> /\ errors' # <<>>)
          => UNCHANGED <<full_text, txt_output, doc, doc_byte_arr, success, downloads>>]_vars
    /\ [][errors = <<>>]_vars
    /\ []((success \/ downloads # <<>>) =>
            /\ errors = <<>>
            /\ client # None
            /\ image_list # None
            /\ Len(image_list[1]) = PageCount
            /\ Len(requests) = PageCount
            /\ \A k \in 1..Len(requests) : ~requests[k].response.raised
            /\ Len(full_text) = PageCount
            /\ txt_output # None
            /\ doc_byte_arr # None
            /\ Len(downloads) = 2)

C6_Witness ==
    /\ pc = "done"
    /\ errors = <<ErrorMessage("ocr"), RemediationHint>>
    /\ Len(full_text) >= 1
    /\ full_text[1] = Word
    /\ downloads = <<>>

\* C7: an answer without text annotations puts the empty text at that page's
\* index of full_text; the call neither reports an error nor ends the run;
\* full_text and both outputs of a successful run still count that page.
C7_PageWithoutTextIsEmptyString ==
    /\ [](\A k \in 1..Len(full_text) :
            requests[k].response.text_annotations = <<>> => full_text[k] = <<>>)
    /\ [][(/\ Len(requests') = Len(requests) + 1
           /\ ~requests'[Len(requests')].response.raised
           /\ requests'[Len(requests')].response.text_annotations = <<>>)
          => (/\ full_text' = Append(full_text, <<>>)
              /\ errors' = errors
              /\ pc' = pc)]_vars
    /\ [](Succeeded =>
            /\ Len(full_text) = PageCount
            /\ Len(Paragraphs(doc_byte_arr[1])) = PageCount
            /\ \A k \in 1..PageCount :
                 requests[k].response.text_annotations = <<>> =>
                     /\ Paragraphs(doc_byte_arr[1])[k].text = <<>>
                     /\ SegmentAt(txt_output[1], full_text, k) = <<>>
            /\ PageCount >= 1 =>
                 Len(txt_output[1]) = 1 + (PageCount - 1) * Len(PageBreakSeparator)
                     + Len(Join(<<>>, full_text)))

C7_Witness ==
    /\ Succeeded
    /\ PageCount >= 2
    /\ ~requests[1].response.raised
    /\ requests[1].response.text_annotations = <<>>
    /\ full_text[1] = <<>>
    /\ full_text[2] = Word

\* C8: no text_detection request is made before every page is rasterized; no
\* output is built before every page is recognised; the messages of steps 1,
\* 2, 3 come in this order and the one of step 2, shown once rasterization is
\* over, carries the page count; after the k-th page the progress value is
\* k / N, every change of the progress value is a strict increase, and it is 1
\* once the last page is recognised.
C8_StepsInOrder ==
    /\ [](requests # <<>> =>
            /\ image_list # None
            /\ page_num = PageCount
            /\ Len(image_list[1]) = PageCount)
    /\ []((txt_output # None \/ doc # <<>> \/ doc_byte_arr # None) =>
            /\ Len(requests) = PageCount
            /\ Len(full_text) = PageCount)
    /\ [](/\ Len(infos) <= 3
          /\ \A k \in 1..Len(infos) : infos[k].step = k
          /\ Len(infos) >= 2 <=> image_list # None
          /\ Len(infos) >= 2 => infos[2].pages = PageCount
          /\ Len(infos) >= 3 <=> txt_output # None)
    /\ [](Len(full_text) >= 1 => progress_bar = <<(<<Len(full_text), PageCount>>)>>)
    /\ []((image_list # None /\ PageCount >= 1 /\ Len(full_text) = PageCount)
            => progress_bar[1][1] = progress_bar[1][2])
    /\ [][(progress_bar # None /\ progress_bar' # progress_bar)
          => progress_bar[1][1] * progress_bar'[1][2]
               < progress_bar'[1][1] * progress_bar[1][2]]_vars

C8_Witness ==
    /\ pc = "ocr"
    /\ PageCount >= 3
    /\ Len(full_text) = 2
    /\ progress_bar = <<(<<2, PageCount>>)>>
    /\ infos[2].pages = PageCount

\* C9: convert_pdf_to_images is called at most once in a run; the k-th
\* text_detection request carries page k, so pages are submitted in ascending
\* order and none twice; a request is made only when the answers to all the
\* earlier ones are stored; no request follows a failed one; a successful run
\* has submitted each page exactly once.
C9_NoRetry ==
    /\ [](raster_calls <= 1)
    /\ [](\A k \in 1..Len(requests) : requests[k].image = [page |-> k - 1])
    /\ [](\A k \in 1..(Len(requests) - 1) : ~requests[k].response.raised)
    /\ [](requests # <<>> => Len(requests) <= PageCount)
    /\ [](Succeeded => (raster_calls = 1 /\ Len(requests) = PageCount))
    /\ [][Len(requests') # Len(requests)
          => (/\ Len(requests') = Len(requests) + 1
              /\ Len(full_text) = Len(requests)
              /\ SubSeq(requests', 1, Len(requests)) = requests)]_vars

C9_Witness ==
    /\ pc = "done"
    /\ PageCount >= 3
    /\ Len(requests) = 2
    /\ requests[2].response.raised
    /\ raster_calls = 1

MissingCredentialOutcome ==
    /\ errors = <<MissingCredentialMessage>>
    /\ api_key_json_str = ""
    /\ client = None /\ raster_calls = 0 /\ requests = <<>> /\ infos = <<>>
    /\ ~success /\ downloads = <<>>

FailureOutcome ==
    /\ \E e \in {"json", "credentials", "pdf", "ocr", "docx"} :
           errors = <<ErrorMessage(e), RemediationHint>>
    /\ api_key_json_str # ""
    /\ ~success /\ downloads = <<>>

SuccessOutcome ==
    /\ errors = <<>>
    /\ success
    /\ Len(downloads) = 2
    /\ downloads[1].label = "Download as TXT"
    /\ downloads[2].label = "Download as DOCX"

\* C10: a finished run shows exactly one of: the single missing-credential
\* error with nothing processed; a failure message followed by the remediation
\* hint; the success message with both download buttons and no error.  The
\* credential text is validated before the file is touched: with a credential
\* text that is not a service-account key the reported failure is the
\* credential one and the file is never opened, even if the file is no PDF.
C10_ThreeOutcomes ==
    /\ pc = "done" =>
        /\ MissingCredentialOutcome \/ FailureOutcome \/ SuccessOutcome
        /\ ~(MissingCredentialOutcome /\ FailureOutcome)
        /\ ~(MissingCredentialOutcome /\ SuccessOutcome)
        /\ ~(FailureOutcome /\ SuccessOutcome)
    /\ pc # "done" => (errors = <<>> /\ ~success /\ downloads = <<>>)
    /\ (pc = "done" /\ api_key_json_str = "not json")
         => (errors[1] = ErrorMessage("json") /\ raster_calls = 0)
    /\ (pc = "done" /\ api_key_json_str = "json")
         => (errors[1] = ErrorMessage("credentials") /\ raster_calls = 0)
    /\ (pc = "done" /\ api_key_json_str = "service account json"
           /\ ~uploaded_file[1].openable)
         => errors[1] = ErrorMessage("pdf")
    /\ raster_calls > 0 => client # None

C10_Witness ==
    /\ pc = "done"
    /\ api_key_json_str = "not json"
    /\ ~uploaded_file[1].openable
    /\ errors = <<ErrorMessage("json"), RemediationHint>>
    /\ raster_calls = 0

====
